---- MODULE Spec2Model ----
(***************************************************************************)
(* Model of src/lib/functions/main.py: the vibe_recommend HTTP handler and *)
(* the process-wide recommendation_cache with its sweeper clean_old_cache. *)
(*                                                                         *)
(* A worker executes one request at a time, statement group by statement   *)
(* group (pc).  The wall clock advances between any two steps.  Spec has   *)
(* one worker (the sequential request lifecycle), SpecConc has two workers *)
(* sharing the cache, SpecRank starts at the scoring step with every       *)
(* candidate list of bounded length.                                       *)
(*                                                                         *)
(* Abstractions: a string is a sequence of one-character strings; a JSON   *)
(* value is a record [t, s] (t the JSON type, s the text of a string);     *)
(* an audio-feature vector is <<score>>, the rounded weighted cosine score *)
(* the handler derives from it (lines 141-147, 156), None is <<>>.  The    *)
(* collaborators answer in the shape the handler expects (one feature      *)
(* entry per id asked for, tracks with artists and an album), and the dict *)
(* is not resized while a scan is under way.                               *)
(***************************************************************************)
EXTENDS Integers, Sequences, FiniteSets, TLC

VARIABLES
    clock,          \* datetime.now(), in minutes
    cache,          \* recommendation_cache: insertion-ordered sequence of [key, data, timestamp]
    origin,         \* history variable: key -> the request that computed the stored payload
    pc,             \* worker -> position in vibe_recommend
    req,            \* worker -> the request being served
    resp,           \* worker -> the response returned
    calls,          \* worker -> external calls made for the current request, in order
    mood,           \* worker -> local mood (lowercased)
    now_,           \* worker -> local now of clean_old_cache
    to_delete,      \* worker -> local to_delete of clean_old_cache
    iter,           \* worker -> the dict iterator of line 29: [used, pos, left], the size
                    \*   of the dict when the loop began, the entries passed, the items due
    swept,          \* history variable: worker -> the cache as clean_old_cache left it
    raced,          \* history variable: worker -> another worker changed the cache since
                    \*   this worker's sweep began and before its cache read ended
    cache_key,      \* worker -> local cache_key
    track_ids,      \* worker -> local track_ids
    recs,           \* worker -> number of tracks in recs['tracks'] (track i has id i)
    rec_features    \* worker -> local rec_features

vars == <<clock, cache, origin, pc, req, resp, calls, mood, now_, to_delete,
          iter, swept, raced, cache_key, track_ids, recs, rec_features>>

-----------------------------------------------------------------------------
(* Bounds of the model *)

MaxTicks == 2           \* the clock stops advancing after this many ticks
MaxHist == 1            \* history documents returned (the query asks for at most 20)
MaxSearch == 1          \* search hits returned (the query asks for at most 5)
Extra == 1              \* candidates beyond TopN the recommendation service may return

(* Program constants *)

TTL == 10               \* timedelta(minutes=10)
TopN == 10              \* [:10]
RecLimit == 20          \* limit=20

\* the clock advances in steps of the cache lifetime: an entry is 0, 10, 20, ... minutes old
TickMinutes == TTL
MaxClock == MaxTicks * TickMinutes

Workers == {"w1", "w2"}

-----------------------------------------------------------------------------
(* Strings and JSON values *)

Str(s) == [t |-> "str", s |-> s]
JNull == [t |-> "null", s |-> <<>>]
JAbsent == [t |-> "absent", s |-> <<>>]
JNum == [t |-> "num", s |-> <<"7">>]

chill == <<"c", "h", "i", "l", "l">>
u == <<"u">>
u_x == <<"u", "_", "x">>
X_chill == <<"X", "_", "c", "h", "i", "l", "l">>

\* str.lower(), on the characters the requests use
LowerChar(c) == IF c = "X" THEN "x" ELSE IF c = "U" THEN "u" ELSE IF c = "C" THEN "c" ELSE c

Lower(s) == [i \in DOMAIN s |-> LowerChar(s[i])]

\* data.get('user_id'): None when the field is absent
GetUserId(body) == IF body.user_id.t = "absent" THEN JNull ELSE body.user_id

\* data.get('mood', 'chill'): the default only when the field is absent
GetMood(body) == IF body.mood.t = "absent" THEN Str(chill) ELSE body.mood

\* not user_id
Falsy(v) == v.t = "null" \/ (v.t = "str" /\ v.s = <<>>)

\* f"{user_id}_{mood}"
CacheKey(uid, m) == uid \o <<"_">> \o m

-----------------------------------------------------------------------------
(* Requests *)

Request(m, uid, md) == [method |-> m, user_id |-> uid, mood |-> md]

Moods == {JAbsent, JNull, JNum, Str(X_chill)}

\* bodies without a usable user_id, with every kind of mood
NoUserRequests ==
    {Request("POST", uid, md) : uid \in {JAbsent, Str(<<>>)}, md \in Moods}
        \cup {Request("POST", JNull, JAbsent)}

\* bodies with a user_id: (u, chill), (u, x_chill), (u_x, chill), and moods that are no string
UserRequests ==
    {Request("POST", Str(u), JAbsent), Request("POST", Str(u), Str(X_chill)),
     Request("POST", Str(u_x), JAbsent),
     Request("POST", Str(u), JNull), Request("POST", Str(u_x), JNum)}

Requests == {Request("OPTIONS", JAbsent, JAbsent)} \cup NoUserRequests \cup UserRequests

NoRequest == [method |-> "none", user_id |-> JAbsent, mood |-> JAbsent]

-----------------------------------------------------------------------------
(* Responses *)

PreflightHeaders == {"Access-Control-Allow-Origin", "Access-Control-Allow-Methods",
                     "Access-Control-Allow-Headers"}
CorsHeaders == {"Access-Control-Allow-Origin"}

NoResponse == [status |-> 0, body |-> <<>>, headers |-> {}]

Response(status, body, headers) == [status |-> status, body |-> body, headers |-> headers]

Error(msg) == [error |-> msg]

Result(top) == [recommendations |-> top]

\* line 59
UserIdRequired == Response(400, Error("user_id required"), CorsHeaders)

\* a search failure answered like an empty search
SearchFailedBad == Response(200, Result(<<>>), CorsHeaders)

\* line 84
SearchFailed == Response(500, Error("Failed to search tracks"), CorsHeaders)

\* line 94
FeaturesFailed == Response(500, Error("Failed to get audio features"), CorsHeaders)

\* line 123
RecsFailed == Response(500, Error("Failed to get recommendations"), CorsHeaders)

\* lines 87 and 97
EmptyResult == Response(200, Result(<<>>), CorsHeaders)

-----------------------------------------------------------------------------
(* The cache as a dict *)

NoFeatures == <<>>

Keys(c) == {c[i].key : i \in DOMAIN c}

IndexOf(c, k) == CHOOSE i \in DOMAIN c : c[i].key = k

Entry(c, k) == c[IndexOf(c, k)]

Remove(c, i) == [j \in 1..(Len(c) - 1) |-> IF j < i THEN c[j] ELSE c[j + 1]]

\* k in d
Cached(c, k) == k \in Keys(c)

\* a read of the first entry instead of the entry of the key
CachedDataBad(c, k) == c[1].data

\* d[k]['data']
CachedData(c, k) == Entry(c, k).data

\* a del that empties the dict
DelBad(c, k) == <<>>

\* del d[k]
Del(c, k) == Remove(c, IndexOf(c, k))

\* an assignment that replaces the whole dict by the one entry
PutBad(c, k, data, ts) == <<[key |-> k, data |-> data, timestamp |-> ts]>>

\* d[k] = v: an existing key keeps its place, a new key goes last
Put(c, k, data, ts) ==
    LET e == [key |-> k, data |-> data, timestamp |-> ts]
    IN  IF k \in Keys(c) THEN [c EXCEPT ![IndexOf(c, k)] = e] ELSE Append(c, e)

-----------------------------------------------------------------------------
(* clean_old_cache *)

\* now - value['timestamp'] > timedelta(minutes=10)
ExpiredBad(now, ts) == now - ts >= TTL

Expired(now, ts) == now - ts > TTL

-----------------------------------------------------------------------------
(* Scoring and ranking *)

\* round(float(score), 3) of the weighted cosine similarities of a feature vector
Score(f) == f[1]

\* the loop of lines 136-157 over the first n tracks, scoring null features as 0
RECURSIVE ScoredBad(_, _)
ScoredBad(n, feats) ==
    IF n = 0 THEN <<>>
    ELSE Append(ScoredBad(n - 1, feats),
                [id |-> n, score |-> IF feats[n] = NoFeatures THEN 0 ELSE Score(feats[n])])

\* the loop of lines 136-157 over the first n tracks
RECURSIVE Scored(_, _)
Scored(n, feats) ==
    IF n = 0 THEN <<>>
    ELSE IF feats[n] = NoFeatures THEN Scored(n - 1, feats)
    ELSE Append(Scored(n - 1, feats), [id |-> n, score |-> Score(feats[n])])

InsertAt(s, k, x) == SubSeq(s, 1, k) \o <<x>> \o SubSeq(s, k + 1, Len(s))

\* a descending sort that puts a later element before earlier ones of equal score
RECURSIVE SortDescBad(_)
SortDescBad(s) ==
    IF s = <<>> THEN <<>>
    ELSE LET acc == SortDescBad(SubSeq(s, 1, Len(s) - 1))
             x == s[Len(s)]
         IN  InsertAt(acc, Cardinality({i \in DOMAIN acc : acc[i].score > x.score}), x)

\* sorted(scored, key=lambda x: x['score'], reverse=True): stable, descending
RECURSIVE SortDesc(_)
SortDesc(s) ==
    IF s = <<>> THEN <<>>
    ELSE LET acc == SortDesc(SubSeq(s, 1, Len(s) - 1))
             x == s[Len(s)]
         IN  InsertAt(acc, Cardinality({i \in DOMAIN acc : acc[i].score >= x.score}), x)

\* [:10]
Take(s, n) == SubSeq(s, 1, IF Len(s) < n THEN Len(s) ELSE n)

Top(scored) == Take(SortDesc(scored), TopN)

\* [f for f in xs if f]
RECURSIVE Truthy(_)
Truthy(xs) ==
    IF xs = <<>> THEN <<>>
    ELSE IF Head(xs) = <<>> THEN Truthy(Tail(xs))
    ELSE <<Head(xs)>> \o Truthy(Tail(xs))

-----------------------------------------------------------------------------
(* External collaborators: what a call can give back *)

Failure == [ok |-> FALSE, val |-> <<>>]
Ok(v) == [ok |-> TRUE, val |-> v]

SeqsUpTo(S, n) == UNION {[1..k -> S] : k \in 0..n}

\* history documents: the track_id of each, <<>> when it has none
HistoryOutcomes == {Failure} \cup {Ok(d) : d \in SeqsUpTo({<<>>, <<"t">>}, MaxHist)}

SearchOutcomes == {Failure} \cup {Ok(d) : d \in SeqsUpTo({<<"t">>}, MaxSearch)}

\* one entry per id asked for, None for an id without features
SeedFeatureOutcomes(ids) ==
    {Failure} \cup {Ok(f) : f \in [1..Len(ids) -> {NoFeatures, <<1>>}]}

RecLens == {n \in {0, 1 + Extra, TopN + 1 + Extra} : n <= RecLimit}

RecOutcomes == {Failure} \cup {Ok(n) : n \in RecLens}

RecFeatureOutcomes(n) ==
    {Failure} \cup
    {Ok([i \in 1..n |-> IF i = 1 THEN NoFeatures ELSE <<1 + (i % 2)>>])}

\* [None] * len(rec_ids)
RecFeaturesFallbackBad(n) == <<>>

RecFeaturesFallback(n) == [i \in 1..n |-> NoFeatures]

Call(op, out) == [op |-> op, ok |-> out.ok]

-----------------------------------------------------------------------------
(* vibe_recommend, one worker p *)

locals == <<mood, now_, to_delete, iter, swept, raced, cache_key, track_ids, recs, rec_features>>

\* worker p changes the cache while other workers are between lines 26 and 66
Races(p) ==
    raced' = [q \in Workers |->
                 raced[q] \/ (q # p /\ pc[q] \in {"scan", "purge", "lookup", "hit"})]

\* return (body, status, headers)
Return(p, r) ==
    /\ resp' = [resp EXCEPT ![p] = r]
    /\ pc' = [pc EXCEPT ![p] = "done"]

\* the catch-all of lines 174-178: 500 with str(e)
Raise(p, e) == Return(p, Response(500, Error(e), CorsHeaders))

Goto(p, l) ==
    /\ pc' = [pc EXCEPT ![p] = l]
    /\ UNCHANGED resp

\* lines 43-59: preflight, body parsing, validation
Receive(p, requests) ==
    /\ pc[p] \in {"idle", "done"}
    /\ \E r \in requests :
        /\ req' = [req EXCEPT ![p] = r]
        /\ calls' = [calls EXCEPT ![p] = <<>>]
        /\ now_' = [now_ EXCEPT ![p] = 0]
        /\ to_delete' = [to_delete EXCEPT ![p] = <<>>]
        /\ iter' = [iter EXCEPT ![p] = [used |-> 0, pos |-> 0, left |-> 0]]
        /\ swept' = [swept EXCEPT ![p] = <<>>]
        /\ raced' = [raced EXCEPT ![p] = FALSE]
        /\ cache_key' = [cache_key EXCEPT ![p] = <<>>]
        /\ track_ids' = [track_ids EXCEPT ![p] = <<>>]
        /\ recs' = [recs EXCEPT ![p] = 0]
        /\ rec_features' = [rec_features EXCEPT ![p] = <<>>]
        /\ IF r.method = "OPTIONS"
           THEN /\ Return(p, Response(204, <<>>, PreflightHeaders))
                /\ mood' = [mood EXCEPT ![p] = <<>>]
           ELSE IF GetMood(r).t # "str"
           THEN /\ Raise(p, "AttributeError")
                /\ mood' = [mood EXCEPT ![p] = <<>>]
           ELSE IF Falsy(GetUserId(r))
           THEN /\ Return(p, UserIdRequired)
                /\ mood' = [mood EXCEPT ![p] = Lower(GetMood(r).s)]
           ELSE /\ pc' = [pc EXCEPT ![p] = "sweep"]
                /\ resp' = [resp EXCEPT ![p] = NoResponse]
                /\ mood' = [mood EXCEPT ![p] = Lower(GetMood(r).s)]
    /\ UNCHANGED <<clock, cache, origin>>

\* lines 26-29: now, to_delete, the iterator over recommendation_cache.items()
SweepBegin(p) ==
    /\ pc[p] = "sweep"
    /\ now_' = [now_ EXCEPT ![p] = clock]
    /\ to_delete' = [to_delete EXCEPT ![p] = <<>>]
    /\ iter' = [iter EXCEPT ![p] = [used |-> Len(cache), pos |-> 0, left |-> Len(cache)]]
    /\ Goto(p, "scan")
    /\ UNCHANGED <<clock, cache, origin, req, calls, mood, swept, raced, cache_key,
                   track_ids, recs, rec_features>>

\* lines 29-31: one step of the for loop
SweepScan(p) ==
    /\ pc[p] = "scan"
    /\ IF Len(cache) # iter[p].used
       THEN \* dictionary changed size during iteration
            /\ Raise(p, "RuntimeError")
            /\ UNCHANGED <<to_delete, iter, swept>>
       ELSE IF iter[p].pos >= Len(cache)
       THEN /\ UNCHANGED <<to_delete, iter>>
            /\ IF to_delete[p] = <<>>
               THEN /\ swept' = [swept EXCEPT ![p] = cache]
                    /\ Goto(p, "lookup")
               ELSE /\ UNCHANGED swept
                    /\ Goto(p, "purge")
       ELSE IF iter[p].left = 0
       THEN \* dictionary keys changed during iteration
            /\ Raise(p, "RuntimeError")
            /\ UNCHANGED <<to_delete, iter, swept>>
       ELSE LET e == cache[iter[p].pos + 1]
            IN  /\ iter' = [iter EXCEPT ![p].pos = @ + 1, ![p].left = @ - 1]
                /\ to_delete' = [to_delete EXCEPT ![p] =
                       IF Expired(now_[p], e.timestamp) THEN Append(@, e.key) ELSE @]
                /\ UNCHANGED <<pc, resp, swept>>
    /\ UNCHANGED <<clock, cache, origin, req, calls, mood, now_, raced, cache_key,
                   track_ids, recs, rec_features>>

\* lines 33-34: one del
SweepPurge(p) ==
    /\ pc[p] = "purge"
    /\ to_delete[p] # <<>>
    /\ LET k == Head(to_delete[p])
       IN  IF k \notin Keys(cache)
           THEN /\ Raise(p, "KeyError")
                /\ UNCHANGED <<cache, origin, to_delete, iter, swept, raced>>
           ELSE /\ cache' = Del(cache, k)
                /\ Races(p)
                /\ origin' = [x \in Keys(cache) \ {k} |-> origin[x]]
                \* a deleted slot before another iterator's position
                /\ iter' = [q \in Workers |->
                       IF q # p /\ pc[q] = "scan" /\ IndexOf(cache, k) <= iter[q].pos
                       THEN [iter[q] EXCEPT !.pos = @ - 1] ELSE iter[q]]
                /\ to_delete' = [to_delete EXCEPT ![p] = Tail(@)]
                /\ IF Tail(to_delete[p]) = <<>>
                   THEN /\ swept' = [swept EXCEPT ![p] = cache']
                        /\ Goto(p, "lookup")
                   ELSE UNCHANGED <<pc, resp, swept>>
    /\ UNCHANGED <<clock, req, calls, mood, now_, cache_key, track_ids, recs, rec_features>>

\* lines 63-64: the key and the membership test
Lookup(p) ==
    /\ pc[p] = "lookup"
    /\ LET k == CacheKey(GetUserId(req[p]).s, mood[p])
       IN  /\ cache_key' = [cache_key EXCEPT ![p] = k]
           /\ Goto(p, IF Cached(cache, k) THEN "hit" ELSE "history")
    /\ UNCHANGED <<clock, cache, origin, req, calls, mood, now_, to_delete, iter, swept,
                   raced, track_ids, recs, rec_features>>

\* line 66: return the stored data
HitRead(p) ==
    /\ pc[p] = "hit"
    /\ IF cache_key[p] \in Keys(cache)
       THEN Return(p, Response(200, CachedData(cache, cache_key[p]), CorsHeaders))
       ELSE Raise(p, "KeyError")
    /\ UNCHANGED <<clock, cache, origin, req, calls, locals>>

\* lines 69-77: the history query (no handler of its own: a failure reaches the catch-all)
History(p, outcomes) ==
    /\ pc[p] = "history"
    /\ \E out \in outcomes :
        /\ calls' = [calls EXCEPT ![p] = Append(@, Call("history", out))]
        /\ IF ~out.ok
           THEN /\ Raise(p, "HistoryError")
                /\ UNCHANGED track_ids
           ELSE /\ track_ids' = [track_ids EXCEPT ![p] = Truthy(out.val)]
                /\ Goto(p, IF Truthy(out.val) = <<>> THEN "search" ELSE "seedfeat")
    /\ UNCHANGED <<clock, cache, origin, req, mood, now_, to_delete, iter, swept,
                   raced, cache_key, recs, rec_features>>

\* lines 78-87: the fallback search by mood
Search(p, outcomes) ==
    /\ pc[p] = "search"
    /\ \E out \in outcomes :
        /\ calls' = [calls EXCEPT ![p] = Append(@, Call("search", out))]
        /\ IF ~out.ok
           THEN /\ Return(p, SearchFailed)
                /\ UNCHANGED track_ids
           ELSE /\ track_ids' = [track_ids EXCEPT ![p] = out.val]
                /\ IF out.val = <<>>
                   THEN Return(p, EmptyResult)
                   ELSE Goto(p, "seedfeat")
    /\ UNCHANGED <<clock, cache, origin, req, mood, now_, to_delete, iter, swept,
                   raced, cache_key, recs, rec_features>>

\* lines 90-97: audio features of the seed tracks
SeedFeatures(p, mayFail) ==
    /\ pc[p] = "seedfeat"
    /\ \E out \in {o \in SeedFeatureOutcomes(track_ids[p]) : o.ok \/ mayFail} :
        /\ calls' = [calls EXCEPT ![p] = Append(@, Call("seed_features", out))]
        /\ IF ~out.ok
           THEN Return(p, FeaturesFailed)
           ELSE IF Truthy(out.val) = <<>>
           THEN Return(p, EmptyResult)
           ELSE Goto(p, "recs")
    /\ UNCHANGED <<clock, cache, origin, req, locals>>

\* lines 119-123: the recommendation fetch
Recs(p, outcomes) ==
    /\ pc[p] = "recs"
    /\ \E out \in outcomes :
        /\ calls' = [calls EXCEPT ![p] = Append(@, Call("recommendations", out))]
        /\ IF ~out.ok
           THEN /\ Return(p, RecsFailed)
                /\ UNCHANGED recs
           ELSE /\ recs' = [recs EXCEPT ![p] = out.val]
                /\ Goto(p, "recfeat")
    /\ UNCHANGED <<clock, cache, origin, req, mood, now_, to_delete, iter, swept,
                   raced, cache_key, track_ids, rec_features>>

\* lines 128-133: audio features of the candidates, in one call
RecFeatures(p, mayFail) ==
    /\ pc[p] = "recfeat"
    /\ \E out \in {o \in RecFeatureOutcomes(recs[p]) : o.ok \/ mayFail} :
        /\ calls' = [calls EXCEPT ![p] = Append(@, Call("rec_features", out))]
        /\ rec_features' = [rec_features EXCEPT ![p] =
               IF out.ok THEN out.val ELSE RecFeaturesFallback(recs[p])]
    /\ Goto(p, "score")
    /\ UNCHANGED <<clock, cache, origin, req, mood, now_, to_delete, iter, swept,
                   raced, cache_key, track_ids, recs>>

\* lines 136-172: score, sort, truncate, store, return
ScoreAndStore(p) ==
    /\ pc[p] = "score"
    /\ IF Len(rec_features[p]) < recs[p]
       THEN \* rec_features[i]: list index out of range
            /\ Raise(p, "IndexError")
            /\ UNCHANGED <<cache, origin, raced>>
       ELSE LET result == Result(Top(Scored(recs[p], rec_features[p])))
            IN  /\ cache' = Put(cache, cache_key[p], result, clock)
                /\ Races(p)
                /\ origin' = [x \in Keys(cache) \cup {cache_key[p]} |->
                       IF x = cache_key[p]
                       THEN [user_id |-> GetUserId(req[p]).s, mood |-> mood[p],
                             valid |-> {i \in 1..recs[p] : rec_features[p][i] # NoFeatures}]
                       ELSE origin[x]]
                /\ Return(p, Response(200, result, CorsHeaders))
    /\ UNCHANGED <<clock, req, calls, mood, now_, to_delete, iter, swept, cache_key,
                   track_ids, recs, rec_features>>

\* the wall clock
Tick ==
    /\ clock + TickMinutes <= MaxClock
    /\ clock' = clock + TickMinutes
    /\ UNCHANGED <<cache, origin, pc, req, resp, calls, locals>>

Step(p) ==
    \/ Receive(p, Requests)
    \/ SweepBegin(p)
    \/ SweepScan(p)
    \/ SweepPurge(p)
    \/ Lookup(p)
    \/ HitRead(p)
    \/ History(p, HistoryOutcomes)
    \/ Search(p, SearchOutcomes)
    \/ SeedFeatures(p, TRUE)
    \/ Recs(p, RecOutcomes)
    \/ RecFeatures(p, TRUE)
    \/ ScoreAndStore(p)

Next == (\E p \in Workers : Step(p)) \/ Tick

InitLocals ==
    /\ req = [p \in Workers |-> NoRequest]
    /\ resp = [p \in Workers |-> NoResponse]
    /\ calls = [p \in Workers |-> <<>>]
    /\ mood = [p \in Workers |-> <<>>]
    /\ now_ = [p \in Workers |-> 0]
    /\ to_delete = [p \in Workers |-> <<>>]
    /\ iter = [p \in Workers |-> [used |-> 0, pos |-> 0, left |-> 0]]
    /\ swept = [p \in Workers |-> <<>>]
    /\ raced = [p \in Workers |-> FALSE]
    /\ cache_key = [p \in Workers |-> <<>>]
    /\ track_ids = [p \in Workers |-> <<>>]
    /\ recs = [p \in Workers |-> 0]
    /\ rec_features = [p \in Workers |-> <<>>]

\* the module as loaded: an empty cache; one worker serves requests
Init ==
    /\ clock = 0
    /\ cache = <<>>
    /\ origin = <<>>
    /\ pc = [p \in Workers |-> IF p = "w1" THEN "idle" ELSE "off"]
    /\ InitLocals

Spec == Init /\ [][Next]_vars

-----------------------------------------------------------------------------
(* Two workers of one process serve requests at the same time.  The collaborators *)
(* answer, and the requests are valid, so that only the shared cache can fail.    *)

ConcRequests == {Request("POST", Str(u), JAbsent), Request("POST", Str(u_x), JAbsent)}

ConcStep(p) ==
    \/ Receive(p, ConcRequests)
    \/ SweepBegin(p)
    \/ SweepScan(p)
    \/ SweepPurge(p)
    \/ Lookup(p)
    \/ HitRead(p)
    \/ History(p, {Ok(<< <<"t">> >>)})
    \/ SeedFeatures(p, FALSE)
    \/ Recs(p, {Ok(0)})
    \/ RecFeatures(p, FALSE)
    \/ ScoreAndStore(p)

ConcNext == (\E p \in Workers : ConcStep(p)) \/ Tick

ConcInit ==
    /\ clock = 0
    /\ cache = <<>>
    /\ origin = <<>>
    /\ pc = [p \in Workers |-> "idle"]
    /\ InitLocals

SpecConc == ConcInit /\ [][ConcNext]_vars

-----------------------------------------------------------------------------
(* The scoring step alone, from every candidate list of bounded length: the handler *)
(* is about to run line 136 for a request that missed the empty cache.               *)

\* what candidate i may have: two scores, and no features for the first three
\* candidates and for those beyond the tenth
RankFeatures(i) == IF i <= 3 \/ i > TopN THEN {NoFeatures, <<1>>, <<2>>} ELSE {<<1>>, <<2>>}

RankInit ==
    /\ clock = 0
    /\ cache = <<>>
    /\ origin = <<>>
    /\ pc = [p \in Workers |-> IF p = "w1" THEN "score" ELSE "off"]
    /\ req = [p \in Workers |->
                 IF p = "w1" THEN Request("POST", Str(u), JAbsent) ELSE NoRequest]
    /\ resp = [p \in Workers |-> NoResponse]
    /\ calls = [p \in Workers |->
                   IF p = "w1"
                   THEN <<Call("history", Ok(0)), Call("seed_features", Ok(0)),
                          Call("recommendations", Ok(0)), Call("rec_features", Ok(0))>>
                   ELSE <<>>]
    /\ mood = [p \in Workers |-> IF p = "w1" THEN chill ELSE <<>>]
    /\ now_ = [p \in Workers |-> 0]
    /\ to_delete = [p \in Workers |-> <<>>]
    /\ iter = [p \in Workers |-> [used |-> 0, pos |-> 0, left |-> 0]]
    /\ swept = [p \in Workers |-> <<>>]
    /\ raced = [p \in Workers |-> FALSE]
    /\ cache_key = [p \in Workers |-> IF p = "w1" THEN CacheKey(u, chill) ELSE <<>>]
    /\ track_ids = [p \in Workers |-> IF p = "w1" THEN << <<"t">> >> ELSE <<>>]
    /\ \E n \in 0..(TopN + 1 + Extra) :
          /\ n <= RecLimit
          /\ recs = [p \in Workers |-> IF p = "w1" THEN n ELSE 0]
          /\ \E f \in {g \in [1..n -> {NoFeatures, <<1>>, <<2>>}] :
                            \A i \in 1..n : g[i] \in RankFeatures(i)} :
                rec_features = [p \in Workers |-> IF p = "w1" THEN f ELSE <<>>]

RankNext == \E p \in Workers : ScoreAndStore(p)

SpecRank == RankInit /\ [][RankNext]_vars

-----------------------------------------------------------------------------
(* Properties: what they speak of, read off the request and the response *)

Served(p) == pc[p] = "done"

HasUser(r) == r.user_id.t = "str" /\ r.user_id.s # <<>>

HasMood(r) == r.mood.t \in {"absent", "str"}

MoodText(r) == IF r.mood.t = "absent" THEN chill ELSE r.mood.s

KeyOfRequest(r) == r.user_id.s \o <<"_">> \o Lower(MoodText(r))

FailedCall(op) == [op |-> op, ok |-> FALSE]

Computed(p) == \E i \in DOMAIN calls[p] : calls[p][i] = [op |-> "recommendations", ok |-> TRUE]

ValidCandidates(p) == {i \in 1..recs[p] : rec_features[p][i] # NoFeatures}

Age(c, k, t) == t - Entry(c, k).timestamp

-----------------------------------------------------------------------------
\* C1: a served non-preflight request with a user_id whose key "{user_id}_{lowercased
\* mood}" is in the cache after the sweep got status 200 with exactly the payload stored
\* under that key, made no external call, and left the entry and its timestamp as they were.
C1_CacheHitVerbatim ==
    \A p \in Workers :
        (/\ Served(p)
         /\ req[p].method # "OPTIONS"
         /\ HasUser(req[p])
         /\ HasMood(req[p])
         /\ KeyOfRequest(req[p]) \in Keys(swept[p]))
        => LET k == KeyOfRequest(req[p])
           IN  /\ resp[p].status = 200
               /\ resp[p].body = Entry(swept[p], k).data
               /\ calls[p] = <<>>
               /\ k \in Keys(cache)
               /\ Entry(cache, k) = Entry(swept[p], k)

\* C1 witness: a request served a non-empty list from the cache while another entry is stored
C1_Witness ==
    \E p \in Workers :
        /\ Served(p)
        /\ HasUser(req[p])
        /\ HasMood(req[p])
        /\ KeyOfRequest(req[p]) \in Keys(swept[p])
        /\ resp[p].status = 200
        /\ resp[p].body.recommendations # <<>>
        /\ Len(cache) > 1
        /\ cache[1].key # KeyOfRequest(req[p])

\* C2 as stated: at the moment of the lookup no entry older than 10 minutes is left in
\* the cache, no hit is answered from an entry older than 10 minutes at that moment, and the
\* sweep removes only entries older than 10 minutes.
C2_NoStaleEntryAtLookup ==
    [][\A p \in Workers :
          /\ (pc[p] = "lookup" /\ pc'[p] # "lookup")
                => \A k \in Keys(cache) : Age(cache, k, clock) <= TTL
          /\ (pc[p] = "lookup" /\ pc'[p] = "hit")
                => Age(cache, cache_key'[p], clock) <= TTL
          /\ pc[p] = "purge"
                => \A k \in Keys(cache) \ Keys(cache') : Age(cache, k, now_[p]) > TTL]_vars

\* C2 amended: age is measured at the moment the sweep read the clock.  When the lookup is
\* made no entry that was older than 10 minutes then is left, a hit is never answered from
\* such an entry, and the sweep removes only entries that were older than 10 minutes then.
C2_SweepByAgeAtSweep ==
    /\ [](\A p \in Workers :
            /\ pc[p] = "lookup" => \A k \in Keys(cache) : Age(cache, k, now_[p]) <= TTL
            /\ pc[p] = "hit" => /\ cache_key[p] \in Keys(cache)
                                /\ Age(cache, cache_key[p], now_[p]) <= TTL)
    /\ [][\A p \in Workers :
            pc[p] # "off"
                => \A k \in Keys(cache) \ Keys(cache') : Age(cache, k, now_[p]) > TTL]_vars

\* C2 witness: a sweep removed an entry and the lookup hit an entry exactly 10 minutes old
C2_Witness ==
    \E p \in Workers :
        /\ pc[p] = "hit"
        /\ Len(cache) < iter[p].used
        /\ Age(cache, cache_key[p], now_[p]) = TTL

\* C3 as stated: a non-preflight request without a user_id (absent, null or empty) gets
\* 400 {error: 'user_id required'} whatever its mood is, with no lookup and no external call.
C3_NoUserIs400 ==
    \A p \in Workers :
        (Served(p) /\ req[p].method # "OPTIONS" /\ ~HasUser(req[p]))
        => /\ resp[p].status = 400
           /\ resp[p].body = [error |-> "user_id required"]
           /\ calls[p] = <<>>
           /\ cache_key[p] = <<>>

\* C4: when the candidate audio-feature fetch fails (seed steps and recommendation fetch
\* having succeeded) the response is {"recommendations": []} with status 200, for any
\* number of candidates.
C4_RecFeatureFailureDegrades ==
    \A p \in Workers :
        (Served(p) /\ calls[p] # <<>> /\ calls[p][Len(calls[p])] = FailedCall("rec_features"))
        => /\ resp[p].status = 200
           /\ resp[p].body = [recommendations |-> <<>>]

\* C4 witness: the fetch failed for more than 10 candidates
C4_Witness ==
    \E p \in Workers :
        /\ Served(p)
        /\ calls[p] # <<>>
        /\ calls[p][Len(calls[p])] = FailedCall("rec_features")
        /\ recs[p] > TopN
        /\ resp[p].status = 200

\* C5: every 200 response, computed, early-empty or from the cache, carries a list of at
\* most 10 entries and at most as many as the candidates with non-null features in the
\* request that computed it, and holds no candidate whose features were null.
C5_ListBounded ==
    \A p \in Workers :
        (Served(p) /\ resp[p].status = 200)
        => LET list == resp[p].body.recommendations
               valid == IF calls[p] = <<>> THEN origin[cache_key[p]].valid
                        ELSE ValidCandidates(p)
           IN  /\ Len(list) <= 10
               /\ Len(list) <= Cardinality(valid)
               /\ \A i \in DOMAIN list : list[i].id \in valid

\* C5 witness: a list of exactly 10 served from the cache, computed from more than 10
\* candidates with features and one without
C5_Witness ==
    \E p \in Workers :
        /\ Served(p)
        /\ resp[p].status = 200
        /\ calls[p] = <<>>
        /\ Len(resp[p].body.recommendations) = 10
        /\ Cardinality(origin[cache_key[p]].valid) > 10

\* C6 as stated: each external operation is invoked at most once per request, a failed
\* call is the last call of the request, and the request then ends with status 500.
C6_EveryFailureIs500 ==
    \A p \in Workers :
        /\ \A i, j \in DOMAIN calls[p] : i # j => calls[p][i].op # calls[p][j].op
        /\ \A i \in DOMAIN calls[p] : ~calls[p][i].ok => i = Len(calls[p])
        /\ (Served(p) /\ calls[p] # <<>> /\ ~calls[p][Len(calls[p])].ok)
              => resp[p].status = 500

\* C6 amended: each external operation is invoked at most once per request and a failed
\* call is the last call of the request; a failed history read, search, seed feature fetch
\* or recommendation fetch ends the request at once with status 500, a failed candidate
\* feature fetch ends it with status 200 and an empty list.
C6_FailuresTerminal ==
    \A p \in Workers :
        /\ \A i, j \in DOMAIN calls[p] : i # j => calls[p][i].op # calls[p][j].op
        /\ \A i \in DOMAIN calls[p] : ~calls[p][i].ok => i = Len(calls[p])
        /\ (calls[p] # <<>> /\ ~calls[p][Len(calls[p])].ok)
              => IF calls[p][Len(calls[p])].op = "rec_features"
                 THEN Served(p) => /\ resp[p].status = 200
                                   /\ resp[p].body = [recommendations |-> <<>>]
                 ELSE Served(p) /\ resp[p].status = 500

\* C6 witness: history empty, search and seed features fine, the recommendation fetch failed
C6_Witness ==
    \E p \in Workers :
        /\ Served(p)
        /\ Len(calls[p]) = 4
        /\ calls[p][4] = FailedCall("recommendations")
        /\ resp[p].status = 500

\* C9: a request writes the cache only in its final step after a successful recommendation
\* fetch: one entry, under its own key, holding the payload it returns and the current
\* time, every other entry untouched.  No other step changes the cache except by removing
\* expired entries, and a request that missed the cache and ends without that write
\* leaves no entry under its key.
C9_CacheWrittenOnlyAtEnd ==
    [][\A p \in Workers :
          pc[p] # "off" =>
             IF pc[p] # "done" /\ pc'[p] = "done" /\ resp'[p].status = 200 /\ Computed(p)
             THEN LET k == KeyOfRequest(req[p])
                  IN  /\ Keys(cache') = Keys(cache) \cup {k}
                      /\ Len(cache') = Cardinality(Keys(cache'))
                      /\ Entry(cache', k).data = resp'[p].body
                      /\ Entry(cache', k).timestamp = clock
                      /\ \A x \in Keys(cache) \ {k} : Entry(cache', x) = Entry(cache, x)
             ELSE /\ Keys(cache') \subseteq Keys(cache)
                  /\ \A x \in Keys(cache') : Entry(cache', x) = Entry(cache, x)
                  /\ \A x \in Keys(cache) \ Keys(cache') : Age(cache, x, now_[p]) > TTL
                  /\ (pc[p] # "done" /\ pc'[p] = "done" /\ calls'[p] # <<>>)
                        => KeyOfRequest(req[p]) \notin Keys(cache')]_vars

\* C9 witness: the degraded empty list was stored beside an entry of another key
C9_Witness ==
    \E p \in Workers :
        /\ Served(p)
        /\ calls[p] # <<>>
        /\ calls[p][Len(calls[p])] = FailedCall("rec_features")
        /\ Len(cache) = 2
        /\ cache[2].key = KeyOfRequest(req[p])
        /\ cache[2].data = resp[p].body

\* C10 as stated: a request is served from the cache only with a payload computed by an
\* earlier request with the same user_id and the same lowercased mood.
C10_KeyedByPair ==
    \A p \in Workers :
        (Served(p) /\ resp[p].status = 200 /\ calls[p] = <<>>)
        => /\ origin[cache_key[p]].user_id = req[p].user_id.s
           /\ origin[cache_key[p]].mood = Lower(MoodText(req[p]))


\* C7: the returned list is the scored candidates in descending order of score, cut after
\* the first 10: every returned entry scores at least as much as every scored candidate
\* left out, adjacent entries do not increase, and candidates of equal score keep the order
\* in which the recommendation service returned them, also across the cut.
C7_TopTenStableDescending ==
    \A p \in Workers :
        (/\ Served(p)
         /\ resp[p].status = 200
         /\ calls[p] # <<>>
         /\ calls[p][Len(calls[p])].op = "rec_features")
        => LET list == resp[p].body.recommendations
               valid == ValidCandidates(p)
               ids == {list[i].id : i \in DOMAIN list}
               out == valid \ ids
           IN  /\ Len(list) = IF Cardinality(valid) < 10 THEN Cardinality(valid) ELSE 10
               /\ ids \subseteq valid
               /\ Cardinality(ids) = Len(list)
               /\ \A i \in DOMAIN list : list[i].score = rec_features[p][list[i].id][1]
               /\ \A i \in DOMAIN list : i < Len(list) => list[i].score >= list[i + 1].score
               /\ \A i, j \in DOMAIN list :
                     (i < j /\ list[i].score = list[j].score) => list[i].id < list[j].id
               /\ \A c \in out : \A i \in DOMAIN list :
                     /\ list[i].score >= rec_features[p][c][1]
                     /\ list[i].score = rec_features[p][c][1] => list[i].id < c

\* C7 witness: the cut falls between two candidates of equal score, and an earlier
\* candidate without features and a better later one are among the candidates
C7_Witness ==
    \E p \in Workers :
        /\ Served(p)
        /\ resp[p].status = 200
        /\ Len(resp[p].body.recommendations) = 10
        /\ rec_features[p][1] = NoFeatures
        /\ resp[p].body.recommendations[1].id > resp[p].body.recommendations[2].id
        /\ \E c \in ValidCandidates(p) :
              /\ \A i \in 1..10 : resp[p].body.recommendations[i].id # c
              /\ rec_features[p][c][1] = resp[p].body.recommendations[10].score

\* C8: under two concurrent workers a request with a valid user_id can fail with 500
\* through the catch-all because of the shared cache alone; and it fails so only with the
\* KeyError of a del or read of a missing key or the RuntimeError of a dict that changed
\* size during the scan, after the other worker changed the cache during its sweep and
\* lookup.
C8_FailsOnlyByRace ==
    \A p \in Workers :
        (Served(p) /\ resp[p].status # 200)
        => /\ resp[p].status = 500
           /\ resp[p].body \in {[error |-> "KeyError"], [error |-> "RuntimeError"]}
           /\ raced[p]
           /\ calls[p] = <<>>

\* C8 witness: a valid request failed with the KeyError of the second del of a key that
\* both sweepers had collected
C8_PurgeFault ==
    \E p \in Workers :
        /\ Served(p)
        /\ HasUser(req[p])
        /\ resp[p] = Response(500, Error("KeyError"), CorsHeaders)
        /\ cache_key[p] = <<>>

\* C8, second way: an insert or a delete during the other worker's scan
C8_ScanFault ==
    \E p \in Workers :
        /\ Served(p)
        /\ HasUser(req[p])
        /\ resp[p] = Response(500, Error("RuntimeError"), CorsHeaders)

\* C8, third way: an entry found by the membership test and deleted before it is read
C8_HitFault ==
    \E p \in Workers :
        /\ Served(p)
        /\ HasUser(req[p])
        /\ resp[p] = Response(500, Error("KeyError"), CorsHeaders)
        /\ cache_key[p] # <<>>

====
